---- MODULE Spec2Model ----
(***************************************************************************)
(* Order service of src/utils/dates.js: the date normaliser                *)
(* formatDateForSearch and the five Express route handlers over the        *)
(* mongoose model Order.  A handler runs from one await to the next as one *)
(* atomic step (Node runs a continuation to completion); the store         *)
(* interaction of an await takes effect at that step.                      *)
(*                                                                         *)
(* Strings that the code takes apart (dates) are sequences of one-         *)
(* character strings.  A JavaScript object is a record; a property that is *)
(* not set is a field that is not in the record's domain.                  *)
(***************************************************************************)
EXTENDS Integers, Sequences, FiniteSets, TLC

VARIABLES
  store,      \* the orders collection, in insertion (natural) order
  pc,         \* per connection: where its handler stands
  req,        \* per connection: the request being served
  res,        \* per connection: the response sent, and the error caught
  created,    \* history: per order_id, 201 responses since the id was last removed
  attempted,  \* history: per order_id, a complete Create has been answered since then
  deleted,    \* history: per order_id, "no", or since its last successful Delete
              \* with no Create of it since: "yes", "searched" once a FindById
              \* of it has been answered
  written,    \* history: per order_id, what the last successful write of it
              \* left, as the requests gave it
  fmtTrace    \* the normaliser applied on its own: input, result, result of result

vars == <<store, pc, req, res, created, attempted, deleted, written, fmtTrace>>

\* Number of connections served concurrently.
MaxConcurrent == 2

Slots == 1..MaxConcurrent

Ids == {"A1", "B2"}

-----------------------------------------------------------------------------
(* Strings and the JavaScript string methods the code uses *)

\* The value of a variable or property that is not set.
undefined == <<"undefined">>

Slash == "/"

Digits == {"0", "1", "2", "3", "4", "5", "6", "7", "8", "9"}

\* String.prototype.split with a one-character separator.
RECURSIVE split(_, _)
split(s, sep) ==
  IF \A i \in 1..Len(s) : s[i] # sep
  THEN <<s>>
  ELSE LET i == CHOOSE k \in 1..Len(s) :
                   s[k] = sep /\ \A j \in 1..(k - 1) : s[j] # sep
       IN  <<SubSeq(s, 1, i - 1)>> \o split(SubSeq(s, i + 1, Len(s)), sep)

\* A mutant of padStart: the fill is added whatever the length.
padStartAlways(s, n, c) == <<c>> \o s

\* A mutant of padStart: the fill goes to the end (padEnd).
padStartAtEnd(s, n, c) ==
  IF Len(s) >= n THEN s ELSE s \o [i \in 1..(n - Len(s)) |-> c]

\* String.prototype.padStart with a one-character fill.
padStart(s, n, c) ==
  IF Len(s) >= n THEN s ELSE [i \in 1..(n - Len(s)) |-> c] \o s

\* The outcome of a call: a value returned or an error thrown.
Return(v) == [ok |-> TRUE, value |-> v]
Throw(e) == [ok |-> FALSE, error |-> e]

\* formatDateForSearch: date.split("/") on undefined throws, and so does
\* padStart on a month or day the destructuring left undefined; components
\* after the third are dropped by the destructuring.
formatDateForSearch(date) ==
  IF date = undefined
  THEN Throw("TypeError")
  ELSE LET parts == split(date, Slash)
       IN  IF Len(parts) < 3
           THEN Throw("TypeError")
           ELSE LET year == parts[1]
                    month == parts[2]
                    day == parts[3]
                IN  Return(year \o <<Slash>> \o padStart(month, 2, "0")
                                \o <<Slash>> \o padStart(day, 2, "0"))

-----------------------------------------------------------------------------
(* The schema, and what mongoose does with it *)

\* orderSchema: every path is required, order_id carries a unique index,
\* and both dates are of type Date.
orderSchema ==
  [order_id      |-> [type |-> "String", required |-> TRUE, unique |-> TRUE],
   item_name     |-> [type |-> "String", required |-> TRUE, unique |-> FALSE],
   cost          |-> [type |-> "Number", required |-> TRUE, unique |-> FALSE],
   order_date    |-> [type |-> "Date",   required |-> TRUE, unique |-> FALSE],
   delivery_date |-> [type |-> "Date",   required |-> TRUE, unique |-> FALSE]]

Paths == DOMAIN orderSchema

\* obj[key] of JavaScript: undefined when the property is not set.
Prop(obj, key) == IF key \in DOMAIN obj THEN obj[key] ELSE undefined

IsDigits(s) == Len(s) > 0 /\ \A i \in 1..Len(s) : s[i] \in Digits

DigitVal(c) ==
  CASE c = "0" -> 0 [] c = "1" -> 1 [] c = "2" -> 2 [] c = "3" -> 3
    [] c = "4" -> 4 [] c = "5" -> 5 [] c = "6" -> 6 [] c = "7" -> 7
    [] c = "8" -> 8 [] c = "9" -> 9

RECURSIVE Num(_)
Num(s) == IF Len(s) = 0 THEN 0
          ELSE 10 * Num(SubSeq(s, 1, Len(s) - 1)) + DigitVal(s[Len(s)])

\* A mutant of castDate: the text is read as year/day/month.
castDateDayFirst(v) ==
  LET p == split(v, Slash)
  IN  IF /\ v # undefined
         /\ Len(p) = 3
         /\ \A i \in 1..3 : IsDigits(p[i])
         /\ Num(p[3]) \in 1..12
         /\ Num(p[2]) \in 1..31
      THEN Return([y |-> Num(p[1]), m |-> Num(p[3]), d |-> Num(p[2])])
      ELSE Throw("CastError")

\* The cast of a path of type Date: a "Y/M/D" string becomes a calendar
\* date, a value that is no date is a CastError.  The stored value is a Date,
\* not the text it was given as.
castDate(v) ==
  LET p == split(v, Slash)
  IN  IF /\ v # undefined
         /\ Len(p) = 3
         /\ \A i \in 1..3 : IsDigits(p[i])
         /\ Num(p[2]) \in 1..12
         /\ Num(p[3]) \in 1..31
      THEN Return([y |-> Num(p[1]), m |-> Num(p[2]), d |-> Num(p[3])])
      ELSE Throw("CastError")

\* A mutant of validateOrder: no path is required.
validateOrderLax(body) ==
  IF \A p \in Paths \cap DOMAIN body :
       orderSchema[p].type = "Date" => castDate(body[p]).ok
  THEN Return([p \in Paths \cap DOMAIN body |->
                 IF orderSchema[p].type = "Date"
                 THEN castDate(body[p]).value
                 ELSE body[p]])
  ELSE Throw("ValidationError")

\* new Order(req.body) followed by the validation save() runs first: a
\* required path that is missing, or a date that does not cast, fails it.
validateOrder(body) ==
  IF /\ \A p \in Paths : orderSchema[p].required => p \in DOMAIN body
     /\ \A p \in Paths : orderSchema[p].type = "Date" => castDate(Prop(body, p)).ok
  THEN Return([order_id      |-> body.order_id,
               item_name     |-> body.item_name,
               cost          |-> body.cost,
               order_date    |-> castDate(body.order_date).value,
               delivery_date |-> castDate(body.delivery_date).value])
  ELSE Throw("ValidationError")

\* A mutant of findOneIndex: the filter is lost, the first document matches.
findOneIndexAny(coll, order_id) == IF Len(coll) > 0 THEN 1 ELSE 0

\* Index of the first document with the order_id, 0 when there is none
\* (findOne, findOneAndUpdate and deleteOne all act on the first match).
findOneIndex(coll, order_id) ==
  IF \E i \in 1..Len(coll) : coll[i].order_id = order_id
  THEN CHOOSE i \in 1..Len(coll) :
         /\ coll[i].order_id = order_id
         /\ \A j \in 1..(i - 1) : coll[j].order_id # order_id
  ELSE 0

\* A mutant of uniqueViolation: the unique index is not there.
uniqueViolationOff(coll, doc) == FALSE

\* The unique index on order_id refuses a second document with the value.
uniqueViolation(coll, doc) ==
  /\ orderSchema.order_id.unique
  /\ \E i \in 1..Len(coll) : coll[i].order_id = doc.order_id

\* A mutant of insertOne: a duplicate is dropped without an error.
insertOneIgnoreDup(coll, doc) ==
  IF uniqueViolation(coll, doc) THEN Return(coll) ELSE Return(Append(coll, doc))

\* The insert save() sends: the collection after it, or the duplicate key
\* error of the unique index.
insertOne(coll, doc) ==
  IF uniqueViolation(coll, doc) THEN Throw("E11000") ELSE Return(Append(coll, doc))

\* A mutant of removeAt: every document goes.
removeAtAll(coll, i) == <<>>

\* A mutant of removeAt: nothing goes.
removeAtNone(coll, i) == coll

\* A mutant of removeAt: the oldest document goes, whichever matched.
removeAtFirst(coll, i) == Tail(coll)

\* The collection without its i-th document.
removeAt(coll, i) == SubSeq(coll, 1, i - 1) \o SubSeq(coll, i + 1, Len(coll))

\* A mutant of applyUpdate: the update also restamps order_date.
applyUpdateBoth(doc, delivery_date) ==
  [doc EXCEPT !.delivery_date = delivery_date, !.order_date = delivery_date]

\* The update document { delivery_date } applied to a stored document.
applyUpdate(doc, delivery_date) == [doc EXCEPT !.delivery_date = delivery_date]

\* A mutant of findOneAndUpdate: with no match the update is inserted
\* (upsert) and returned.
findOneAndUpdateUpsert(coll, order_id, delivery_date) ==
  LET i == findOneIndex(coll, order_id)
  IN  IF i = 0
      THEN [found |-> TRUE,
            coll |-> Append(coll, [order_id |-> order_id,
                                   delivery_date |-> delivery_date])]
      ELSE [found |-> TRUE,
            coll |-> [coll EXCEPT ![i] = applyUpdate(@, delivery_date)]]

\* Order.findOneAndUpdate({ order_id }, { delivery_date }, { new: true }):
\* one atomic command on the first document with the order_id; without
\* upsert nothing is written when there is none.
findOneAndUpdate(coll, order_id, delivery_date) ==
  LET i == findOneIndex(coll, order_id)
  IN  IF i = 0
      THEN [found |-> FALSE, coll |-> coll]
      ELSE [found |-> TRUE,
            coll |-> [coll EXCEPT ![i] = applyUpdate(@, delivery_date)]]

\* A mutant of regexCastable: $regex is let through on every path.
regexCastableAny(path) == TRUE

\* The query cast of { path: { $regex } }: only a path of type String has
\* a $regex handler, on any other type the cast throws.
regexCastable(path) == orderSchema[path].type = "String"

\* s contains sub as a substring.
Contains(s, sub) ==
  \E i \in 0..(Len(s) - Len(sub)) : SubSeq(s, i + 1, i + Len(sub)) = sub

\* $regex on the server matches string values only.
regexMatch(doc, path, pattern) ==
  /\ orderSchema[path].type = "String"
  /\ Contains(doc[path], pattern)

\* The subsequence of the documents that satisfy the regex condition.
RECURSIVE filterRegex(_, _, _)
filterRegex(coll, path, pattern) ==
  IF coll = <<>> THEN <<>>
  ELSE (IF regexMatch(Head(coll), path, pattern) THEN <<Head(coll)>> ELSE <<>>)
       \o filterRegex(Tail(coll), path, pattern)

-----------------------------------------------------------------------------
(* The requests the clients send *)

Y2023 == <<"2", "0", "2", "3">>
Y1999 == <<"1", "9", "9", "9">>

\* The text y/m/d.
DateStr(y, m, d) == y \o <<Slash>> \o m \o <<Slash>> \o d

Soon == <<"s", "o", "o", "n">>

OrderDates == {DateStr(Y2023, <<"0", "5">>, <<"0", "1">>),
               DateStr(Y2023, <<"5">>, <<"2">>)}

DeliveryAtCreate == DateStr(Y2023, <<"0", "5">>, <<"1", "0">>)

DeliveryUpdates == {DateStr(Y2023, <<"0", "5">>, <<"1", "2">>), Soon}

\* Bodies of POST /orders/create: complete ones, and ones without item_name.
CreateBodies ==
  {[order_id |-> id, item_name |-> "Widget", cost |-> 10,
    order_date |-> od, delivery_date |-> DeliveryAtCreate] :
      id \in Ids, od \in OrderDates}
  \cup
  {[order_id |-> id, cost |-> 10,
    order_date |-> DateStr(Y2023, <<"0", "5">>, <<"0", "1">>),
    delivery_date |-> DeliveryAtCreate] : id \in Ids}

\* Bodies of POST /orders/update.
UpdateBodies ==
  {[order_id |-> id, delivery_date |-> dd] : id \in Ids, dd \in DeliveryUpdates}

\* Query strings of GET /orders/list: two dates, no date parameter, and
\* dates of two and of four components.
ListQueries ==
  {[date |-> DateStr(Y2023, <<"5">>, <<"1">>)],
   [date |-> DateStr(Y2023, <<"0", "5">>, <<"0", "2">>)],
   [date |-> Y2023 \o <<Slash>> \o <<"5">>],
   [date |-> DateStr(Y2023, <<"5">>, <<"1">>) \o <<Slash, "7">>]}
  \cup {[format |-> "json"]}

Requests ==
  {[op |-> "create", body |-> b] : b \in CreateBodies}
  \cup {[op |-> "update", body |-> b] : b \in UpdateBodies}
  \cup {[op |-> "list", query |-> q] : q \in ListQueries}
  \cup {[op |-> "search", body |-> [order_id |-> id]] : id \in Ids}
  \cup {[op |-> "delete", params |-> [order_id |-> id]] : id \in Ids}

\* No write of an order_id has succeeded since it was last deleted.
NotWritten == [present |-> FALSE]

NoRequest == [op |-> "none"]
NoResponse == [status |-> 0]

\* A mutant of Response: a caught error that is not a store error is
\* answered 400.
ResponseBadRequest(status, data, error) ==
  [status |-> IF error \in {"TypeError", "CastError", "ValidationError"}
              THEN 400 ELSE status,
   data |-> data, error |-> error]

\* res.status(code).json(...): the status, the JSON sent when it is data, and
\* the error the catch clause caught ("none" outside the catch clause).
Response(status, data, error) == [status |-> status, data |-> data, error |-> error]

-----------------------------------------------------------------------------
(* The state machine *)

Init ==
  /\ store = <<>>
  /\ pc = [s \in Slots |-> "idle"]
  /\ req = [s \in Slots |-> NoRequest]
  /\ res = [s \in Slots |-> NoResponse]
  /\ created = [id \in Ids |-> 0]
  /\ attempted = [id \in Ids |-> FALSE]
  /\ deleted = [id \in Ids |-> "no"]
  /\ written = [id \in Ids |-> NotWritten]
  /\ fmtTrace = <<>>

\* A request arrives on a connection that is not serving one.
Receive(s) ==
  /\ pc[s] \in {"idle", "done"}
  /\ \E r \in Requests : req' = [req EXCEPT ![s] = r]
  /\ pc' = [pc EXCEPT ![s] = "start"]
  /\ res' = [res EXCEPT ![s] = NoResponse]
  /\ UNCHANGED <<store, created, attempted, deleted, written, fmtTrace>>

\* The handler of s sends its response and ends.
Respond(s, r) ==
  /\ res' = [res EXCEPT ![s] = r]
  /\ pc' = [pc EXCEPT ![s] = "done"]

\* POST /orders/create up to and including await Order.findOne: a document
\* with the order_id is answered 409, otherwise the handler goes on to save.
CreateCheck(s) ==
  /\ pc[s] = "start"
  /\ req[s].op = "create"
  /\ LET order_id == req[s].body.order_id
         existingOrder == findOneIndex(store, order_id)
     IN  IF existingOrder # 0
         THEN /\ Respond(s, Response(409, <<>>, "none"))
              /\ attempted' = [attempted EXCEPT ![order_id] =
                                 @ \/ validateOrder(req[s].body).ok]
         ELSE /\ pc' = [pc EXCEPT ![s] = "save"]
              /\ UNCHANGED <<res, attempted>>
  /\ UNCHANGED <<store, req, created, deleted, written, fmtTrace>>

\* POST /orders/create from await newOrder.save() on: validation, then the
\* insert; 201 when it is written, and any error is caught and answered 500.
CreateSave(s) ==
  /\ pc[s] = "save"
  /\ LET order_id == req[s].body.order_id
         newOrder == validateOrder(req[s].body)
         saved == insertOne(store, newOrder.value)
     IN  IF ~newOrder.ok
         THEN /\ Respond(s, Response(500, <<>>, newOrder.error))
              /\ UNCHANGED <<store, created, attempted, deleted, written>>
         ELSE IF ~saved.ok
         THEN /\ Respond(s, Response(500, <<>>, saved.error))
              /\ attempted' = [attempted EXCEPT ![order_id] = TRUE]
              /\ UNCHANGED <<store, created, deleted, written>>
         ELSE /\ store' = saved.value
              /\ Respond(s, Response(201, <<>>, "none"))
              /\ created' = [created EXCEPT ![order_id] = @ + 1]
              /\ attempted' = [attempted EXCEPT ![order_id] = TRUE]
              /\ deleted' = [deleted EXCEPT ![order_id] = "no"]
              /\ written' = [written EXCEPT ![order_id] =
                               [present |-> TRUE, fields |-> req[s].body]]
  /\ UNCHANGED <<req, fmtTrace>>

\* POST /orders/update: findOneAndUpdate casts the update, then changes the
\* first document with the order_id; it does not insert.
UpdateOrder(s) ==
  /\ pc[s] = "start"
  /\ req[s].op = "update"
  /\ LET order_id == req[s].body.order_id
         delivery_date == castDate(req[s].body.delivery_date)
         updatedOrder == findOneAndUpdate(store, order_id, delivery_date.value)
     IN  IF ~delivery_date.ok
         THEN /\ Respond(s, Response(500, <<>>, delivery_date.error))
              /\ UNCHANGED <<store, written>>
         ELSE IF ~updatedOrder.found
         THEN /\ Respond(s, Response(404, <<>>, "none"))
              /\ store' = updatedOrder.coll
              /\ UNCHANGED written
         ELSE /\ store' = updatedOrder.coll
              /\ Respond(s, Response(200, <<>>, "none"))
              /\ written' = [written EXCEPT ![order_id].fields.delivery_date =
                               req[s].body.delivery_date]
  /\ UNCHANGED <<req, created, attempted, deleted, fmtTrace>>

\* GET /orders/list: the date is normalised, then matched as a regex against
\* order_date.
ListOrders(s) ==
  /\ pc[s] = "start"
  /\ req[s].op = "list"
  /\ LET date == Prop(req[s].query, "date")
         formattedDate == formatDateForSearch(date)
     IN  IF ~formattedDate.ok
         THEN Respond(s, Response(500, <<>>, formattedDate.error))
         ELSE IF ~regexCastable("order_date")
         THEN Respond(s, Response(500, <<>>, "Error"))
         ELSE Respond(s, Response(200,
                filterRegex(store, "order_date", formattedDate.value), "none"))
  /\ UNCHANGED <<store, req, created, attempted, deleted, written, fmtTrace>>

\* POST /orders/search: the first document with the order_id, or 404.
SearchOrder(s) ==
  /\ pc[s] = "start"
  /\ req[s].op = "search"
  /\ LET order_id == req[s].body.order_id
         foundOrder == findOneIndex(store, order_id)
     IN  /\ IF foundOrder = 0
            THEN Respond(s, Response(404, <<>>, "none"))
            ELSE Respond(s, Response(200, store[foundOrder], "none"))
         /\ deleted' = [deleted EXCEPT ![order_id] =
                          IF @ = "no" THEN "no" ELSE "searched"]
  /\ UNCHANGED <<store, req, created, attempted, written, fmtTrace>>

\* DELETE /orders/delete/:order_id: deleteOne removes the first document
\* with the order_id; deletedCount 0 is answered 404.
DeleteOrder(s) ==
  /\ pc[s] = "start"
  /\ req[s].op = "delete"
  /\ LET order_id == req[s].params.order_id
         found == findOneIndex(store, order_id)
     IN  IF found = 0
         THEN /\ Respond(s, Response(404, <<>>, "none"))
              /\ UNCHANGED <<store, created, attempted, deleted, written>>
         ELSE /\ store' = removeAt(store, found)
              /\ Respond(s, Response(200, <<>>, "none"))
              /\ created' = [created EXCEPT ![order_id] = 0]
              /\ attempted' = [attempted EXCEPT ![order_id] = FALSE]
              /\ deleted' = [deleted EXCEPT ![order_id] = "yes"]
              /\ written' = [written EXCEPT ![order_id] = NotWritten]
  /\ UNCHANGED <<req, fmtTrace>>

Next ==
  \E s \in Slots :
    \/ Receive(s)
    \/ CreateCheck(s)
    \/ CreateSave(s)
    \/ UpdateOrder(s)
    \/ ListOrders(s)
    \/ SearchOrder(s)
    \/ DeleteOrder(s)

Spec == Init /\ [][Next]_vars

-----------------------------------------------------------------------------
(* The normaliser on its own *)

FmtYears == {Y2023, Y1999, <<"0", "0", "0", "1">>}
FmtMonths == {<<"1">>, <<"5">>, <<"0", "5">>, <<"1", "2">>}
FmtDays == {<<"1">>, <<"9">>, <<"0", "1">>, <<"2", "5">>}

\* Inputs of formatDateForSearch: every year/month/day above, and inputs that
\* are not dates of three components of at most two digits.
FmtInputs ==
  {DateStr(y, m, d) : y \in FmtYears, m \in FmtMonths, d \in FmtDays}
  \cup {undefined,
        <<>>,
        Y2023 \o <<Slash>> \o <<"5">>,
        DateStr(Y2023, <<"5">>, <<"1">>) \o <<Slash, "7">>,
        DateStr(Y2023, <<"1", "2", "3">>, <<"1">>)}

InitFmt ==
  /\ store = <<>>
  /\ pc = [s \in Slots |-> "idle"]
  /\ req = [s \in Slots |-> NoRequest]
  /\ res = [s \in Slots |-> NoResponse]
  /\ created = [id \in Ids |-> 0]
  /\ attempted = [id \in Ids |-> FALSE]
  /\ deleted = [id \in Ids |-> "no"]
  /\ written = [id \in Ids |-> NotWritten]
  /\ fmtTrace \in {<<Return(x)>> : x \in FmtInputs}

\* formatDateForSearch applied to the last value returned.
FmtApply ==
  /\ Len(fmtTrace) \in 1..2
  /\ fmtTrace[Len(fmtTrace)].ok
  /\ fmtTrace' = Append(fmtTrace, formatDateForSearch(fmtTrace[Len(fmtTrace)].value))
  /\ UNCHANGED <<store, pc, req, res, created, attempted, deleted, written>>

NextFmt == FmtApply

SpecFmt == InitFmt /\ [][NextFmt]_vars

-----------------------------------------------------------------------------
(* Properties *)

\* coll holds a document with the order_id.
Holds(coll, id) == \E i \in 1..Len(coll) : coll[i].order_id = id

\* The document of coll with the order_id (there is one).
Rec(coll, id) == coll[CHOOSE i \in 1..Len(coll) : coll[i].order_id = id]

Range(seq) == {seq[i] : i \in 1..Len(seq)}

\* Connection s takes the step that answers its request of kind op.
Answers(s, op) == req[s].op = op /\ pc[s] # "done" /\ pc'[s] = "done"

\* Connection s has answered a request of kind op.
Answered(s, op) == pc[s] = "done" /\ req[s].op = op

\* A Create body with every required field and dates that are dates.
Complete(body) ==
  /\ DOMAIN body = Paths
  /\ body.order_date \in OrderDates
  /\ body.delivery_date = DeliveryAtCreate

\* C1: a Create that fails because its order_id is taken (its pre-check
\* found the document, or its write hit the unique index) is answered 409,
\* never 500, in every interleaving.
C1_TakenIdIsConflict ==
  \A s \in Slots :
    (Answered(s, "create") /\ res[s].error = "E11000") => res[s].status = 409

\* C2: between two removals of an order_id at most one Create of it is
\* answered 201, and once a complete Create of it has been answered and none
\* is in flight, exactly one has been.
C2_FreshCreateSucceedsOnce ==
  \A id \in Ids :
    /\ created[id] <= 1
    /\ (/\ attempted[id]
        /\ ~\E s \in Slots : /\ pc[s] \in {"start", "save"}
                             /\ req[s].op = "create"
                             /\ req[s].body.order_id = id)
       => created[id] = 1

\* Two complete Creates of one order_id have raced past the pre-check: one
\* was answered 201, the other was not.
C2_Witness ==
  \E s, t \in Slots :
    /\ s # t
    /\ Answered(s, "create") /\ Answered(t, "create")
    /\ req[s].body.order_id = req[t].body.order_id
    /\ Complete(req[s].body) /\ Complete(req[t].body)
    /\ res[s].status = 201
    /\ res[t].status # 201
    /\ res[t].error = "E11000"
    /\ created[req[s].body.order_id] = 1

\* C3: the store holds at most one document per order_id.
C3_OneRecordPerOrderId ==
  \A i, j \in 1..Len(store) : store[i].order_id = store[j].order_id => i = j

\* A second write of an order_id reached the store and was refused, with
\* both order_ids stored.
C3_Witness ==
  /\ Len(store) = 2
  /\ \E s \in Slots : /\ Answered(s, "create")
                      /\ res[s].error = "E11000"
                      /\ Holds(store, req[s].body.order_id)

\* C4 as stated: an Update of an order_id that has no document is answered
\* 404 and leaves the store as it is.
C4_UpdateMissingIsNotFound ==
  [][\A s \in Slots :
       (Answers(s, "update") /\ ~Holds(store, req[s].body.order_id))
       => (res'[s].status = 404 /\ store' = store)]_vars

\* C4 amended: an Update of an order_id that has no document leaves the
\* store as it is; it is answered 404, unless the delivery_date it gives
\* cannot be cast to a date, and then 500.
C4_UpdateMissingNeverMutates ==
  [][\A s \in Slots :
       (Answers(s, "update") /\ ~Holds(store, req[s].body.order_id))
       => /\ store' = store
          /\ res'[s].status =
               (IF req[s].body.delivery_date = Soon THEN 500 ELSE 404)]_vars

\* An Update of an order_id that is not stored was answered 404 while the
\* other order_id is stored.
C4_Witness ==
  \E s \in Slots :
    /\ Answered(s, "update")
    /\ res[s].status = 404
    /\ ~Holds(store, req[s].body.order_id)
    /\ Len(store) = 1

\* C5: a Delete answered 200 removes the one document with its order_id
\* and no other, and a FindById of an order_id that was deleted and not
\* created since is answered 404.
C5_DeleteRemovesOne ==
  [][\A s \in Slots :
       /\ (Answers(s, "delete") /\ res'[s].status = 200)
          => \E i \in 1..Len(store) :
               /\ store[i].order_id = req[s].params.order_id
               /\ store' = [j \in 1..(Len(store) - 1) |->
                              IF j < i THEN store[j] ELSE store[j + 1]]
               /\ ~Holds(store', req[s].params.order_id)
       /\ (Answers(s, "search") /\ deleted[req[s].body.order_id] # "no")
          => res'[s].status = 404]_vars

\* An order_id was deleted, the other one is still stored, and a FindById
\* of the deleted one was answered 404.
C5_Witness ==
  \E s, t \in Slots :
    /\ Answered(t, "delete") /\ res[t].status = 200
    /\ Answered(s, "search") /\ res[s].status = 404
    /\ req[s].body.order_id = req[t].params.order_id
    /\ deleted[req[s].body.order_id] = "searched"
    /\ Len(store) = 1

\* C6: no step changes the order_date of a stored document, and an Update
\* answered 200 changes the delivery_date of the document with its order_id
\* and nothing else.
C6_UpdateOnlyDeliveryDate ==
  [][/\ \A id \in Ids :
          (Holds(store, id) /\ Holds(store', id))
          => Rec(store', id).order_date = Rec(store, id).order_date
     /\ \A s \in Slots :
          (Answers(s, "update") /\ res'[s].status = 200)
          => \E i \in 1..Len(store) :
               /\ store[i].order_id = req[s].body.order_id
               /\ Len(store') = Len(store)
               /\ \A j \in 1..Len(store) : j # i => store'[j] = store[j]
               /\ store'[i].order_id = store[i].order_id
               /\ store'[i].item_name = store[i].item_name
               /\ store'[i].cost = store[i].cost
               /\ store'[i].order_date = store[i].order_date
               /\ store'[i].delivery_date = [y |-> 2023, m |-> 5, d |-> 12]]_vars

\* An Update was answered 200 and its document has the new delivery_date
\* and the order_date it was created with.
C6_Witness ==
  \E s \in Slots :
    /\ Answered(s, "update") /\ res[s].status = 200
    /\ Holds(store, req[s].body.order_id)
    /\ Rec(store, req[s].body.order_id).delivery_date = [y |-> 2023, m |-> 5, d |-> 12]
    /\ Rec(store, req[s].body.order_id).order_date = [y |-> 2023, m |-> 5, d |-> 2]
    /\ Len(store) = 2

\* The text YYYY/MM/DD of a stored date.
Dec(n) == CHOOSE c \in Digits : DigitVal(c) = n
DateText(date) ==
  <<Dec(date.y \div 1000), Dec((date.y \div 100) % 10), Dec((date.y \div 10) % 10),
    Dec(date.y % 10), Slash, Dec(date.m \div 10), Dec(date.m % 10), Slash,
    Dec(date.d \div 10), Dec(date.d % 10)>>

\* C7: a ListByDate whose date normalises to N is answered 200 with exactly
\* the stored documents whose order_date contains N as text.
C7_ListReturnsMatches ==
  [][\A s \in Slots :
       (/\ Answers(s, "list")
        /\ "date" \in DOMAIN req[s].query
        /\ Len(split(Prop(req[s].query, "date"), Slash)) = 3)
       => LET N == formatDateForSearch(req[s].query.date).value
          IN  /\ res'[s].status = 200
              /\ Range(res'[s].data) =
                   {d \in Range(store) : Contains(DateText(d.order_date), N)}]_vars

\* A date of a four-digit year and a month and a day of one or two digits.
ValidDate(x) ==
  /\ x # undefined
  /\ LET p == split(x, Slash)
     IN  /\ Len(p) = 3
         /\ Len(p[1]) = 4 /\ IsDigits(p[1])
         /\ Len(p[2]) \in 1..2 /\ IsDigits(p[2])
         /\ Len(p[3]) \in 1..2 /\ IsDigits(p[3])

\* s with one "0" in front when it is a single character.
TwoDigits(s) == IF Len(s) = 1 THEN <<"0">> \o s ELSE s

\* C8: on a valid date formatDateForSearch returns ten characters of shape
\* ####/##/##, with the year as given and a one-digit month or day padded
\* with one "0" on the left.
C8_FormatShape ==
  (Len(fmtTrace) >= 2 /\ ValidDate(fmtTrace[1].value))
  => LET p == split(fmtTrace[1].value, Slash)
         out == fmtTrace[2]
     IN  /\ out.ok
         /\ Len(out.value) = 10
         /\ \A i \in 1..10 : IF i \in {5, 8} THEN out.value[i] = Slash
                                             ELSE out.value[i] \in Digits
         /\ SubSeq(out.value, 1, 4) = p[1]
         /\ SubSeq(out.value, 6, 7) = TwoDigits(p[2])
         /\ SubSeq(out.value, 9, 10) = TwoDigits(p[3])

\* A date with a one-digit month and a one-digit day has been normalised.
C8_Witness ==
  /\ Len(fmtTrace) >= 2
  /\ fmtTrace[1].value = DateStr(Y2023, <<"5">>, <<"1">>)
  /\ fmtTrace[2] = Return(DateStr(Y2023, <<"0", "5">>, <<"0", "1">>))

\* C9: on a valid date a second formatDateForSearch returns what the first
\* did, and a date that is already padded is returned as it is.
C9_FormatIdempotent ==
  /\ (Len(fmtTrace) = 3 /\ ValidDate(fmtTrace[1].value))
     => fmtTrace[3] = fmtTrace[2]
  /\ (/\ Len(fmtTrace) >= 2
      /\ ValidDate(fmtTrace[1].value)
      /\ Len(fmtTrace[1].value) = 10)
     => fmtTrace[2] = fmtTrace[1]

\* formatDateForSearch has been applied twice to a date that needed padding.
C9_Witness ==
  /\ Len(fmtTrace) = 3
  /\ fmtTrace[1].value = DateStr(Y1999, <<"5">>, <<"2", "5">>)
  /\ fmtTrace[2] = Return(DateStr(Y1999, <<"0", "5">>, <<"2", "5">>))
  /\ fmtTrace[3] = fmtTrace[2]

\* The date parameter is absent or has not exactly three components.
Malformed(query) ==
  \/ "date" \notin DOMAIN query
  \/ Len(split(Prop(query, "date"), Slash)) # 3

\* C10: a ListByDate with a malformed date is answered 500, never 200.
C10_MalformedDateIsFailure ==
  \A s \in Slots :
    (Answered(s, "list") /\ Malformed(req[s].query)) => res[s].status = 500

\* A ListByDate with a date of four components was answered 500.
C10_Witness ==
  \E s \in Slots :
    /\ Answered(s, "list")
    /\ "date" \in DOMAIN req[s].query
    /\ Len(split(req[s].query.date, Slash)) = 4
    /\ res[s].status = 500

\* The handler of connection s takes its next step.
Serves(s) ==
  \/ CreateCheck(s)
  \/ CreateSave(s)
  \/ UpdateOrder(s)
  \/ ListOrders(s)
  \/ SearchOrder(s)
  \/ DeleteOrder(s)

\* The statuses a route may answer.
Statuses(op) ==
  CASE op = "create" -> {201, 409, 500}
    [] op \in {"update", "search", "delete"} -> {200, 404, 500}
    [] op = "list" -> {200, 500}

\* C11: a request is answered exactly once, with a status of its route (a
\* caught error with 500, and only it), at most two steps of its handler
\* after it arrived; a step of one connection leaves the request and the
\* response of every other connection as they are, and a connection that
\* has answered, with an error or not, takes the next request.
C11_OneResponsePerRequest ==
  [][\A s \in Slots :
       /\ pc[s] \in {"start", "save"} => res[s] = NoResponse
       /\ pc[s] = "done" => (~ENABLED Serves(s) /\ ENABLED Receive(s))
       /\ res'[s] # res[s] => pc'[s] # pc[s]
       /\ pc'[s] # pc[s]
          => /\ pc[s] = "start" => pc'[s] \in {"save", "done"}
             /\ pc[s] = "save" => pc'[s] = "done"
             /\ pc[s] \in {"idle", "done"} => (pc'[s] = "start" /\ res'[s] = NoResponse)
             /\ pc'[s] = "done"
                => /\ req'[s] = req[s]
                   /\ res'[s].status \in Statuses(req[s].op)
                   /\ res'[s].error # "none" <=> res'[s].status = 500
             /\ \A t \in Slots \ {s} :
                  pc'[t] = pc[t] /\ req'[t] = req[t] /\ res'[t] = res[t]]_vars

\* A ListByDate has been answered 500 with a caught error, and next to it a
\* FindById has been answered 200.
C11_Witness ==
  \E s, t \in Slots :
    /\ Answered(s, "list") /\ res[s].status = 500 /\ res[s].error = "TypeError"
    /\ Answered(t, "search") /\ res[t].status = 200

\* The text YYYY/MM/DD of a date given as Y/M/D.
CanonText(x) ==
  LET p == split(x, Slash)
  IN  DateStr(p[1], TwoDigits(p[2]), TwoDigits(p[3]))

C13_DeleteOnceThenNotFound ==
  [][\A s \in Slots :
       Answers(s, "delete")
       => LET order_id == req[s].params.order_id
          IN  /\ res'[s].status \in {200, 404}
              /\ res'[s].status = 200 <=> Holds(store, order_id)
              /\ res'[s].status = 200 => ~Holds(store', order_id)
              /\ res'[s].status = 404 => store' = store
              /\ deleted[order_id] # "no" => res'[s].status = 404]_vars

\* Two Deletes of one order_id have been answered, one with 200 and the
\* other with 404, and no Create has written the order_id since.
C13_Witness ==
  \E s, t \in Slots :
    /\ Answered(s, "delete") /\ res[s].status = 200
    /\ Answered(t, "delete") /\ res[t].status = 404
    /\ req[s].params.order_id = req[t].params.order_id
    /\ deleted[req[s].params.order_id] # "no"
    /\ store # <<>>

\* C14: a step of a Create that does not end in 201 (the pre-check, an
\* answer 409, an answer 500) leaves the store as it was, and a Create whose
\* body lacks a required field never ends in 201.
C14_FailedCreateWritesNothing ==
  [][\A s \in Slots :
       (req[s].op = "create" /\ pc[s] \in {"start", "save"} /\ pc'[s] # pc[s])
       => /\ ~(pc'[s] = "done" /\ res'[s].status = 201) => store' = store
          /\ (pc'[s] = "done" /\ DOMAIN req[s].body # Paths)
             => (res'[s].status \in {409, 500} /\ store' = store)]_vars

\* Next to a stored order, a Create without a required field has been
\* answered 500, and a Create of a taken order_id has been answered 409.
C14_Witness ==
  \E s, t \in Slots :
    /\ Answered(s, "create") /\ DOMAIN req[s].body # Paths
    /\ res[s].status = 500 /\ res[s].error = "ValidationError"
    /\ Answered(t, "create") /\ res[t].status = 409
    /\ store # <<>>

\* The order_ids that coll holds.
StoredIds(coll) == {coll[i].order_id : i \in 1..Len(coll)}

\* C15: the set of stored order_ids changes only in the step of a Create
\* that answers 201, which adds exactly its order_id, and in the step of a
\* Delete that answers 200, which removes exactly its order_id; a FindById,
\* a ListByDate, an Update and the pre-check of a Create leave it, and the
\* number of documents, as they were.
C15_IdsChangeByCreateAndDelete ==
  [][/\ StoredIds(store') # StoredIds(store)
        => \E s \in Slots :
             \/ /\ Answers(s, "create") /\ res'[s].status = 201
                /\ req[s].body.order_id \notin StoredIds(store)
                /\ StoredIds(store') = StoredIds(store) \cup {req[s].body.order_id}
             \/ /\ Answers(s, "delete") /\ res'[s].status = 200
                /\ req[s].params.order_id \in StoredIds(store)
                /\ StoredIds(store') = StoredIds(store) \ {req[s].params.order_id}
     /\ \A s \in Slots :
          /\ (Answers(s, "create") /\ res'[s].status = 201)
             => StoredIds(store') = StoredIds(store) \cup {req[s].body.order_id}
          /\ (Answers(s, "delete") /\ res'[s].status = 200)
             => StoredIds(store') = StoredIds(store) \ {req[s].params.order_id}
          /\ (/\ pc[s] \in {"start", "save"} /\ pc'[s] # pc[s]
              /\ \/ req[s].op \in {"search", "list", "update"}
                 \/ req[s].op = "create" /\ pc[s] = "start")
             => /\ StoredIds(store') = StoredIds(store)
                /\ Len(store') = Len(store)]_vars

\* A Create has added one order_id and a Delete has removed the other one,
\* which was stored before it.
C15_Witness ==
  \E s, t \in Slots :
    /\ Answered(s, "create") /\ res[s].status = 201
    /\ Answered(t, "delete") /\ res[t].status = 200
    /\ req[s].body.order_id # req[t].params.order_id
    /\ StoredIds(store) = {req[s].body.order_id}
    /\ deleted[req[t].params.order_id] = "yes"
    /\ created[req[s].body.order_id] = 1

\* A Delete of the order_id of the Update of s is being served on another
\* connection while the store holds the order_id, or has removed it.
RacesDelete(s) ==
  \E t \in Slots \ {s} :
    /\ req[t].op = "delete"
    /\ req[t].params.order_id = req[s].body.order_id
    /\ \/ pc[t] = "start" /\ Holds(store, req[s].body.order_id)
       \/ pc[t] = "done" /\ res[t].status = 200 /\ deleted[req[s].body.order_id] # "no"

\* The Update of s takes effect in its one step: it is answered 200, the
\* document was there and has the new delivery_date; or it is answered 404,
\* there was no document and the store is as it was.
AppliedOrNotFound(s) ==
  LET order_id == req[s].body.order_id
  IN  \/ /\ res'[s].status = 200
         /\ Holds(store, order_id) /\ Holds(store', order_id)
         /\ Len(store') = Len(store)
         /\ Rec(store', order_id).delivery_date =
              castDate(req[s].body.delivery_date).value
      \/ /\ res'[s].status = 404
         /\ ~Holds(store, order_id)
         /\ store' = store

\* C16 as stated: an Update that races a Delete of its order_id is answered
\* 200 and was applied to the document, or is answered 404.
C16_UpdateRacingDelete ==
  [][\A s \in Slots :
       (Answers(s, "update") /\ RacesDelete(s)) => AppliedOrNotFound(s)]_vars

\* C16, amended: every Update is answered in the one step of its store
\* command: 200 and applied to the document that was there, or 404 with the
\* store as it was, or, when its delivery_date is not a date, 500 with the
\* store as it was; and no step of an Update leaves a document of an
\* order_id whose Delete has succeeded.
C16_UpdateIsOneStoreStep ==
  [][\A s \in Slots :
       (req[s].op = "update" /\ pc'[s] # pc[s] /\ pc[s] = "start")
       => /\ pc'[s] = "done"
          /\ IF castDate(req[s].body.delivery_date).ok
             THEN AppliedOrNotFound(s)
             ELSE res'[s].status = 500 /\ store' = store
          /\ \A id \in Ids : deleted[id] # "no" => ~Holds(store', id)]_vars

\* An Update has been answered 404 and a Delete of the same order_id 200,
\* and the store holds no document of it.
C16_Witness ==
  \E s, t \in Slots :
    /\ Answered(s, "update") /\ res[s].status = 404
    /\ Answered(t, "delete") /\ res[t].status = 200
    /\ req[s].body.order_id = req[t].params.order_id
    /\ deleted[req[s].body.order_id] # "no"
    /\ ~Holds(store, req[s].body.order_id)
    /\ store # <<>>

====
